---------------------------- MODULE Spec2Model ----------------------------
(***************************************************************************)
(* A model of the ipyparaview display widget view (js/lib/widgets.js):     *)
(* the orbit camera kept by PVDisplayView.render, its mouse and wheel      *)
(* handlers, the throttle of the camera publications, and the display of   *)
(* the frames on the canvas.                                               *)
(*                                                                         *)
(* Numbers.  The source computes in IEEE doubles.  The model computes in   *)
(* decimal fixed point on TLC's 32-bit integers:                           *)
(*   - a dimensionless number (an NDC coordinate, a component of a unit    *)
(*     vector, a sine, a scaling factor) x is the integer x * One;         *)
(*   - an angle is counted in 1/One radian, so phiLim = 1.5175 is 15175;   *)
(*   - a length is counted in micro-units (1e-6 of the scene's unit), so   *)
(*     rlim = 0.00001 is 10 and a radius of 100 is 10^8;                   *)
(*   - a time is counted in milliseconds, as Date.now() does.              *)
(* Every product and quotient rounds to the nearest integer, and the       *)
(* value NaN stands for the double NaN with its propagation rules.         *)
(***************************************************************************)
EXTENDS Integers, Sequences, FiniteSets, TLC

One    == 10^4            \* the fixed-point scale of dimensionless numbers
MaxInt == 2^30 + (2^30 - 1)
NaN    == 0 - MaxInt      \* the double NaN; no computed number equals it

IsNaN(a) == a = NaN
Abs(a)   == IF a < 0 THEN 0 - a ELSE a
Sgn(a)   == IF a < 0 THEN 0 - 1 ELSE 1
MaxOf(a, b) == IF a >= b THEN a ELSE b

\* a / b rounded to the nearest integer, halves away from zero (b > 0)
RDiv(a, b) ==
  LET q == Abs(a) \div b
      r == Abs(a) % b
  IN  Sgn(a) * (IF r >= b - r THEN q + 1 ELSE q)

\* the least power of ten k <= One with (|a| / k) * |b| inside the integers
ScaleFor(a, b) ==
  LET lim == MaxInt \div MaxOf(Abs(b), 1)
      m   == Abs(a)
  IN  IF m <= lim THEN 1
      ELSE IF m \div 10 < lim THEN 10
      ELSE IF m \div 100 < lim THEN 100
      ELSE IF m \div 1000 < lim THEN 1000
      ELSE One

-----------------------------------------------------------------------------
(* The arithmetic of doubles the source uses: +, -, *, /, Math.max,        *)
(* Math.min, Math.sqrt, Math.sin, Math.cos, Math.asin, Math.atan2.         *)

FAdd(a, b) == IF IsNaN(a) \/ IsNaN(b) THEN NaN ELSE a + b
FSub(a, b) == IF IsNaN(a) \/ IsNaN(b) THEN NaN ELSE a - b

\* a * b where at least one factor is dimensionless (scaled by One)
FMul(a, b) ==
  IF IsNaN(a) \/ IsNaN(b) THEN NaN
  ELSE LET big   == IF Abs(a) >= Abs(b) THEN a ELSE b
           small == IF Abs(a) >= Abs(b) THEN b ELSE a
           k     == ScaleFor(big, small)
       IN  RDiv(RDiv(big, k) * small, One \div k)

\* a / b of two numbers of one kind, a dimensionless result; 0/0 is NaN.
\* (x/0 with x # 0 does not arise: every divisor of the source is a norm,
\* which is 0 for the zero vector only, or the extent of the canvas.)
FDiv(a, b) ==
  IF IsNaN(a) \/ IsNaN(b) \/ b = 0 THEN NaN
  ELSE LET k == ScaleFor(One, a)
           d == RDiv(Abs(b), k)
       IN  IF d = 0 THEN NaN
           ELSE Sgn(b) * RDiv(a * (One \div k), d)

\* Math.max and Math.min: NaN if either argument is NaN
FMax(a, b) == IF IsNaN(a) \/ IsNaN(b) THEN NaN ELSE IF a >= b THEN a ELSE b
FMin(a, b) == IF IsNaN(a) \/ IsNaN(b) THEN NaN ELSE IF a <= b THEN a ELSE b

\* the integer square root, by Newton's iteration from above
RECURSIVE SqrtFrom(_, _)
SqrtFrom(n, x) ==
  LET y == (x + (n \div x)) \div 2
  IN  IF y >= x THEN x ELSE SqrtFrom(n, y)

ISqrt(n) == IF n = 0 THEN 0 ELSE SqrtFrom(n, IF n < 46341 THEN n ELSE 46341)

Pi     == 31416
HalfPi == 15708

\* Math.sin of an angle in [0, Pi], by Bhaskara's rational approximation
\* 16 x (Pi - x) / (5 Pi^2 - 4 x (Pi - x))
SinArc(x) ==
  LET q == (x * (Pi - x)) \div 100
      D == 12337063
  IN  RDiv(4 * q * 100, RDiv(D - q, 100))

\* Math.sin: odd and 2 Pi periodic
Sin(a) ==
  IF IsNaN(a) THEN NaN
  ELSE LET x == a % (2 * Pi)
       IN  IF x <= Pi THEN SinArc(x) ELSE 0 - SinArc(x - Pi)

\* Math.cos
Cos(a) == IF IsNaN(a) THEN NaN ELSE Sin(a + HalfPi)

\* the greatest angle in lo..hi whose sine is at most v (Sin(lo) <= v)
RECURSIVE AsinIn(_, _, _)
AsinIn(v, lo, hi) ==
  IF lo >= hi THEN lo
  ELSE LET mid == (lo + hi + 1) \div 2
       IN  IF Sin(mid) <= v THEN AsinIn(v, mid, hi) ELSE AsinIn(v, lo, mid - 1)

\* Math.asin: NaN outside [-1, 1]
Asin(v) ==
  IF IsNaN(v) \/ Abs(v) > One THEN NaN
  ELSE Sgn(v) * AsinIn(Abs(v), 0, HalfPi)

-----------------------------------------------------------------------------
(* The utility functions of render (widgets.js 35-68).  A vector is a      *)
(* triple; a spherical offset is <<radius, azimuth, elevation>>.           *)

VMaxAbs(x) == MaxOf(Abs(x[1]), MaxOf(Abs(x[2]), Abs(x[3])))

\* the least power of ten that brings the squares of x inside the integers
NormScale(x) ==
  LET ok(k) == VMaxAbs(x) \div k <= 26754
  IN  IF ok(1) THEN 1 ELSE IF ok(10) THEN 10 ELSE IF ok(100) THEN 100
      ELSE IF ok(1000) THEN 1000 ELSE IF ok(10000) THEN 10000 ELSE 100000

\* norm: Math.sqrt(x[0]*x[0] + x[1]*x[1] + x[2]*x[2])
norm(x) ==
  IF \E i \in 1..3 : IsNaN(x[i]) THEN NaN
  ELSE LET k == NormScale(x)
           c(i) == RDiv(x[i], k)
       IN  k * ISqrt(c(1) * c(1) + c(2) * c(2) + c(3) * c(3))

\* normalize: [x[0]/r, x[1]/r, x[2]/r] with r = norm(x); NaNs for the zero vector
normalize(x) ==
  LET r == norm(x)
  IN  <<FDiv(x[1], r), FDiv(x[2], r), FDiv(x[3], r)>>

\* cross: the right-handed cross product
cross(x, y) ==
  << FSub(FMul(x[2], y[3]), FMul(x[3], y[2])),
     FSub(FMul(x[3], y[1]), FMul(x[1], y[3])),
     FSub(FMul(x[1], y[2]), FMul(x[2], y[1])) >>

\* Math.atan2(y, x): the angle of the point (x, y), in (-Pi, Pi]; atan2(0, 0) = 0
Atan2(y, x) ==
  IF IsNaN(y) \/ IsNaN(x) THEN NaN
  ELSE IF y = 0 /\ x = 0 THEN 0
  ELSE LET s == Asin(FDiv(y, norm(<<x, y, 0>>)))
       IN  IF x >= 0 THEN s
           ELSE IF y >= 0 THEN Pi - s ELSE 0 - Pi - s

\* cartToSphr: [r, atan2(x[0], x[2]), asin(x[1]/r)] with r = norm(x)
cartToSphr(x) ==
  LET r == norm(x)
  IN  <<r, Atan2(x[1], x[3]), Asin(FDiv(x[2], r))>>

\* sphrToCart: [r sin(az) cos(el), r sin(el), r cos(az) cos(el)]
sphrToCart(x) ==
  << FMul(FMul(x[1], Sin(x[2])), Cos(x[3])),
     FMul(x[1], Sin(x[3])),
     FMul(FMul(x[1], Cos(x[2])), Cos(x[3])) >>

vadd(x, y) == <<FAdd(x[1], y[1]), FAdd(x[2], y[2]), FAdd(x[3], y[3])>>

vscl(x, y) == <<FMul(x[1], y), FMul(x[2], y), FMul(x[3], y)>>

-----------------------------------------------------------------------------
(* The constants of the handlers.                                          *)

throttlems == 1000 \div 20      \* 1000.0/20.0 ms
dragScl    == 5 * One           \* 5.0, the rotation scaling of handleDrag
phiLim     == 15175             \* 1.5175
midScl     == (One * 100) \div 125   \* 1.0/1.25
wheelScl   == 40                \* 40.0
dScl       == (5 * One) \div 100     \* 0.05
rlim       == 10                \* 0.00001

-----------------------------------------------------------------------------
(* The bounds of the model and the inputs it draws.                        *)

ConstructT == 100     \* Date.now() when render runs
MaxTime    == 202     \* the clock stops advancing here
MaxEvents  == 3       \* input events delivered to the canvas

\* the steps by which the clock advances between two events
Ticks == {throttlems, throttlems + 1}

\* The construction-time cameras (camp, camf, camu of the model):
\*  - the camera of the notebook's render view;
\*  - a view from straight above the focal point, its up-vector along z;
\*  - a scene of microscopic extent: the camera 4e-6 away from the focal point.
Cameras ==
  { [camp |-> <<-19000000, 78600000, -351700000>>,
     camf |-> <<-42800000, 20600000, -8400000>>,
     camu |-> <<0, One, 0>>],
    [camp |-> <<0, 100000000, 0>>, camf |-> <<0, 0, 0>>, camu |-> <<0, 0, One>>],
    [camp |-> <<0, 0, 4>>, camf |-> <<0, 0, 0>>, camu |-> <<0, One, 0>>] }

\* canvas.getBoundingClientRect(), in client pixels
rect == [left |-> 8, right |-> 808, top |-> 8, bottom |-> 508]

\* the client positions of the pointer events, all inside rect: the top left
\* corner, a fifth of the width to the right, a fifth of both extents down and
\* to the right, and the bottom right corner
Positions == {<<8, 8>>, <<168, 8>>, <<168, 108>>, <<808, 508>>}
Buttons   == {0, 1, 2}
\* mousedown reads the position and the button, mousemove the position only,
\* mouseup the button only
DownEvents ==
  {[clientX |-> p[1], clientY |-> p[2], button |-> b] : p \in Positions, b \in Buttons}
MoveEvents == {[clientX |-> p[1], clientY |-> p[2]] : p \in Positions}
UpEvents   == [button : Buttons]

\* the wheel events: a notch towards the scene, a fast spin, one notch reported
\* through detail only, and an event that reports no delta at all
WheelEvents ==
  { [wheelDelta |-> 40, detail |-> 0], [wheelDelta |-> 1200, detail |-> 0],
    [wheelDelta |-> 0, detail |-> 3], [wheelDelta |-> 0, detail |-> 0] }

-----------------------------------------------------------------------------
(* The display of a frame (widgets.js 89-101, 199-211).  A payload is the  *)
(* sequence of the bytes of model.get('frame').buffer; image data is the   *)
(* sequence of the bytes of imgData.data, four to a pixel.                 *)

\* model.get('resolution'): the width and the height of the canvas
resolution == <<2, 1>>

\* the payloads: two of the size of the canvas, the second with alphas other
\* than 255; one of six bytes; one of a single pixel; one of three pixels
Frames ==
  { <<10, 20, 30, 255, 40, 50, 60, 255>>,
    <<200, 100, 50, 0, 7, 8, 9, 128>>,
    <<1, 2, 3, 4, 5, 6>>,
    <<90, 80, 70, 60>>,
    <<11, 12, 13, 14, 21, 22, 23, 24, 31, 32, 33, 34>> }

\* the payload the model holds when the view is constructed
Frame0 == <<10, 20, 30, 255, 40, 50, 60, 255>>

\* ctx.createImageData(width, height): transparent black
createImageData(w, h) == [k \in 1..(4 * w * h) |-> 0]

\* imgData.data[k] = frame[j]: a read past the end of the Uint8Array gives
\* undefined, which the Uint8ClampedArray stores as 0 (j counts from 0)
ByteAt(fr, j) == IF j < Len(fr) THEN fr[j + 1] ELSE 0

\* the loop of the initial render (widgets.js 95-100), from index i on
RECURSIVE RenderLoop(_, _, _)
RenderLoop(data, fr, i) ==
  IF i < Len(data)
  THEN RenderLoop([data EXCEPT ![i + 1] = ByteAt(fr, i),
                               ![i + 2] = ByteAt(fr, i + 1),
                               ![i + 3] = ByteAt(fr, i + 2),
                               ![i + 4] = 255], fr, i + 4)
  ELSE data

\* the initial render (widgets.js 92-101): the image data put on the canvas
initialRender(fr) ==
  RenderLoop(createImageData(resolution[1], resolution[2]), fr, 0)

\* the loop of frameChange (widgets.js 204-209), from index i on
RECURSIVE FrameLoop(_, _, _)
FrameLoop(data, fr, i) ==
  IF i < Len(data)
  THEN FrameLoop([data EXCEPT ![i + 1] = ByteAt(fr, i),
                              ![i + 2] = ByteAt(fr, i + 1),
                              ![i + 3] = ByteAt(fr, i + 2),
                              ![i + 4] = 255], fr, i + 4)
  ELSE data

\* the loop of frameChange with the alpha of the payload copied too
RECURSIVE FrameLoopAlpha(_, _, _)
FrameLoopAlpha(data, fr, i) ==
  IF i < Len(data)
  THEN FrameLoopAlpha([data EXCEPT ![i + 1] = ByteAt(fr, i),
                                   ![i + 2] = ByteAt(fr, i + 1),
                                   ![i + 3] = ByteAt(fr, i + 2),
                                   ![i + 4] = ByteAt(fr, i + 3)], fr, i + 4)
  ELSE data

\* frameChange that keeps the alpha of the payload
frameChangeKeepAlpha(fr) ==
  FrameLoopAlpha(createImageData(resolution[1], resolution[2]), fr, 0)

\* frameChange (widgets.js 199-211): the image data put on the canvas
frameChange(fr) ==
  FrameLoop(createImageData(resolution[1], resolution[2]), fr, 0)

-----------------------------------------------------------------------------
(* The state.                                                              *)

VARIABLES
  now,         \* Date.now()
  cf,          \* the focal point (a global of the page)
  cp,          \* the spherical offset of the camera from cf (a global)
  cu,          \* the up-vector (a global)
  m0,          \* the last mouse position, in NDC
  lastMouseT,  \* the time of the last publication
  listeners,   \* the mousemove listeners of the canvas, in registration order
  pending,     \* the listener calls of the event under dispatch still to run
  model,       \* the attributes camp and camf of the widget model
  pubs,        \* the model.set + save_changes calls made, in order
  msgs,        \* the custom messages sent by view.send, in order
  nev,         \* the number of input events delivered so far
  frame,       \* the attribute frame of the widget model: the bytes of the payload
  img,         \* the image data the canvas shows
  presents,    \* the number of ctx.putImageData calls made
  view2,       \* a second view of the page: its closure variables and its model
  held,        \* for each button, the presses over the canvas since its last release there
  ptr,         \* the NDC position of the last pointer-down or pointer-move event handled
  olog,        \* the orbits applied since the last dolly: offset before, and delta
  porder       \* the primary and auxiliary buttons that are down, first pressed first

vars == <<now, cf, cp, cu, m0, lastMouseT, listeners, pending, model, pubs, msgs, nev,
          frame, img, presents, view2, held, ptr, olog, porder>>

\* the canvas of the view, the second view, and the record of the input
display == <<frame, img, presents>>
history == <<held, ptr, olog, porder>>

\* what the handlers read and write, as one record
View == [cf |-> cf, cp |-> cp, cu |-> cu, m0 |-> m0, lastMouseT |-> lastMouseT,
         listeners |-> listeners, model |-> model, pubs |-> pubs, msgs |-> msgs]

\* no second view on the page
NoView ==
  [alive |-> FALSE, m0 |-> [x |-> 0, y |-> 0], lastMouseT |-> 0, listeners |-> <<>>,
   pending |-> <<>>, model |-> [camp |-> <<0, 0, 0>>, camf |-> <<0, 0, 0>>],
   pubs |-> <<>>, msgs |-> <<>>]

\* render (widgets.js 85-103, 125) of a view whose model holds the camera c
\* and the payload fr: the state after construction
Constructed(c, fr) ==
  /\ now = ConstructT
  /\ cf = c.camf
  /\ cp = cartToSphr(vadd(c.camp, vscl(c.camf, 0 - One)))
  /\ cu = c.camu
  /\ model = [camp |-> c.camp, camf |-> c.camf]
  /\ m0 = [x |-> 0, y |-> 0]
  /\ lastMouseT = now
  /\ listeners = <<>>
  /\ pending = <<>>
  /\ pubs = <<>>
  /\ msgs = <<>>
  /\ nev = 0
  /\ frame = fr
  /\ img = initialRender(fr)
  /\ presents = 1
  /\ view2 = NoView
  /\ held = [b \in Buttons |-> 0]
  /\ ptr = [x |-> 0, y |-> 0]
  /\ olog = <<>>
  /\ porder = <<>>

Init == \E c \in Cameras : Constructed(c, Frame0)

\* the camera of the notebook's render view
NotebookCamera ==
  [camp |-> <<-19000000, 78600000, -351700000>>,
   camf |-> <<-42800000, 20600000, -8400000>>,
   camu |-> <<0, One, 0>>]

\* render of a view of the notebook's camera whose model holds any payload
InitFrames == \E fr \in Frames : Constructed(NotebookCamera, fr)

-----------------------------------------------------------------------------
(* The handlers, as functions of the record v and the event e.             *)

\* getNDC: the mouse position relative to the canvas rectangle
getNDC(e) ==
  [x |-> FDiv(e.clientX - rect.left, rect.right - rect.left),
   y |-> FDiv(e.clientY - rect.top, rect.top - rect.bottom)]

\* getMouseDelta: the move since m0, and m0 := the current position
getMouseDelta(v, e) ==
  LET m1 == getNDC(e)
  IN  [md |-> [x |-> FSub(m1.x, v.m0.x), y |-> FSub(m1.y, v.m0.y)],
       v  |-> [v EXCEPT !.m0 = m1]]

\* updateCam without line 132: the time of the publication is not kept
updateCamNoStamp(v, mt) ==
  IF mt - v.lastMouseT > throttlems
  THEN LET camp == vadd(sphrToCart(v.cp), v.cf)
       IN  [v EXCEPT !.model = [camp |-> camp, camf |-> v.cf],
                     !.pubs = Append(@, [t |-> mt, camp |-> camp, camf |-> v.cf]),
                     !.msgs = Append(@, [t |-> mt, event |-> "updateCam"])]
  ELSE v

\* updateCam without the focal point: the offset is published as the position
updateCamNoFocal(v, mt) ==
  IF mt - v.lastMouseT > throttlems
  THEN LET camp == sphrToCart(v.cp)
       IN  [v EXCEPT !.model = [camp |-> camp, camf |-> v.cf],
                     !.pubs = Append(@, [t |-> mt, camp |-> camp, camf |-> v.cf]),
                     !.msgs = Append(@, [t |-> mt, event |-> "updateCam"]),
                     !.lastMouseT = mt]
  ELSE v

\* updateCam at time mt: publish the camera and ask for a render, unless the
\* last publication is at most throttlems old
updateCam(v, mt) ==
  IF mt - v.lastMouseT > throttlems
  THEN LET camp == vadd(sphrToCart(v.cp), v.cf)
       IN  [v EXCEPT !.model = [camp |-> camp, camf |-> v.cf],
                     !.pubs = Append(@, [t |-> mt, camp |-> camp, camf |-> v.cf]),
                     !.msgs = Append(@, [t |-> mt, event |-> "updateCam"]),
                     !.lastMouseT = mt]
  ELSE v

\* Orbit with the clamp taken before the move instead of after it
OrbitClampFirst(c, md) ==
  <<c[1],
    FSub(c[2], FMul(dragScl, md.x)),
    FSub(FMax(0 - phiLim, FMin(phiLim, c[3])), FMul(dragScl, md.y))>>

\* Orbit with the clamp of the elevation put on the azimuth as well
OrbitClampAzimuth(c, md) ==
  <<c[1],
    FMax(0 - phiLim, FMin(phiLim, FSub(c[2], FMul(dragScl, md.x)))),
    FMax(0 - phiLim, FMin(phiLim, FSub(c[3], FMul(dragScl, md.y))))>>

\* the rotation of handleDrag
Orbit(c, md) ==
  <<c[1],
    FSub(c[2], FMul(dragScl, md.x)),
    FMax(0 - phiLim, FMin(phiLim, FSub(c[3], FMul(dragScl, md.y))))>>

\* handleDrag with the throttle around the whole handler: a throttled move
\* is dropped
handleDragDropped(v, e, mt) ==
  IF mt - v.lastMouseT > throttlems
  THEN LET g == getMouseDelta(v, e)
       IN  updateCam([g.v EXCEPT !.cp = Orbit(@, g.md)], mt)
  ELSE v

handleDrag(v, e, mt) ==
  LET g == getMouseDelta(v, e)
  IN  updateCam([g.v EXCEPT !.cp = Orbit(@, g.md)], mt)

\* the translation of the focal point of handleMidDrag
Pan(f, c, u, md) ==
  LET ccp == sphrToCart(c)
      h   == normalize(cross(ccp, u))
      vv  == normalize(cross(ccp, h))
      d   == vscl(vadd(vscl(h, md.x), vscl(vv, md.y)), FMul(c[1], midScl))
  IN  vadd(f, d)

handleMidDrag(v, e, mt) ==
  LET g == getMouseDelta(v, e)
  IN  updateCam([g.v EXCEPT !.cf = Pan(@, g.v.cp, g.v.cu, g.md)], mt)

\* the wheel delta of handleScroll
WheelD(e) ==
  IF e.wheelDelta # 0 THEN FDiv(e.wheelDelta, wheelScl)
  ELSE IF e.detail # 0 THEN (0 - e.detail) * One ELSE 0

\* the radius change of handleScroll
Dolly(c, d) == <<FMax(rlim, FMul(c[1], FSub(One, FMul(dScl, d)))), c[2], c[3]>>

handleScroll(v, e, mt) ==
  LET d == WheelD(e)
  IN  IF d # 0 THEN updateCam([v EXCEPT !.cp = Dolly(@, d)], mt) ELSE v

\* addEventListener that registers a listener again that is registered already
AddListenerAgain(ls, name) == Append(ls, name)

\* addEventListener: a listener already registered is not registered again
AddListener(ls, name) ==
  IF \E i \in 1..Len(ls) : ls[i] = name THEN ls ELSE Append(ls, name)

\* removeEventListener
RemoveListener(ls, name) == SelectSeq(ls, LAMBDA n : n # name)

\* the mousedown listener with every button but the primary one starting a pan
mousedownElsePan(v, e) ==
  [v EXCEPT !.m0 = getNDC(e),
            !.listeners = IF e.button = 0 THEN AddListener(@, "handleDrag")
                          ELSE AddListener(@, "handleMidDrag")]

\* the mousedown listener (widgets.js 179-186)
mousedown(v, e) ==
  [v EXCEPT !.m0 = getNDC(e),
            !.listeners = IF e.button = 0 THEN AddListener(@, "handleDrag")
                          ELSE IF e.button = 1 THEN AddListener(@, "handleMidDrag")
                          ELSE @]

\* the mouseup listener (widgets.js 188-194)
mouseup(v, e) ==
  [v EXCEPT !.listeners = IF e.button = 0 THEN RemoveListener(@, "handleDrag")
                          ELSE IF e.button = 1 THEN RemoveListener(@, "handleMidDrag")
                          ELSE @]

\* the call of the listener named name with the event e at time mt
Handle(name, v, e, mt) ==
  IF name = "mousedown" THEN mousedown(v, e)
  ELSE IF name = "mouseup" THEN mouseup(v, e)
  ELSE IF name = "handleDrag" THEN handleDrag(v, e, mt)
  ELSE IF name = "handleMidDrag" THEN handleMidDrag(v, e, mt)
  ELSE handleScroll(v, e, mt)

\* the calls the dispatch of the event e makes: one per listener, in
\* registration order
Calls(ls, e) == [i \in 1..Len(ls) |-> [name |-> ls[i], e |-> e]]

-----------------------------------------------------------------------------
(* The actions: one per event delivered to the canvas, the run of a        *)
(* listener, and the clock.  Events are handled one at a time: while the   *)
(* listeners of one event run, no other event is taken up.                 *)

\* the handlers' writes
Store(v) ==
  /\ cf' = v.cf
  /\ cp' = v.cp
  /\ cu' = v.cu
  /\ m0' = v.m0
  /\ lastMouseT' = v.lastMouseT
  /\ listeners' = v.listeners
  /\ model' = v.model
  /\ pubs' = v.pubs
  /\ msgs' = v.msgs

\* the clock advances between two events
Tick(dt) ==
  /\ pending = <<>>
  /\ view2.pending = <<>>
  /\ now + dt <= MaxTime
  /\ now' = now + dt
  /\ UNCHANGED <<cf, cp, cu, m0, lastMouseT, listeners, pending, model, pubs, msgs, nev>>
  /\ UNCHANGED <<display, view2, history>>

\* the browser takes up the next event once the listeners of the last have run
Idle == pending = <<>> /\ view2.pending = <<>> /\ nev < MaxEvents

\* the gesture buttons down, after the button b went down: a button that was
\* up joins last
Pressed(po, b) ==
  IF b \in {0, 1} /\ ~(\E i \in 1..Len(po) : po[i] = b) THEN Append(po, b) ELSE po

\* the gesture buttons down, after the button b went up
Released(po, b) == SelectSeq(po, LAMBDA x : x # b)

\* a button goes down over the canvas: the mousedown listener is called
\* (widgets.js 179)
MouseDown(e) ==
  /\ Idle
  /\ nev' = nev + 1
  /\ pending' = <<[name |-> "mousedown", e |-> e]>>
  /\ held' = [held EXCEPT ![e.button] = @ + 1]
  /\ porder' = Pressed(porder, e.button)
  /\ UNCHANGED <<now, cf, cp, cu, m0, lastMouseT, listeners, model, pubs, msgs>>
  /\ UNCHANGED <<display, view2, ptr, olog>>

\* a button goes up over the canvas: the mouseup listener is called
\* (widgets.js 188)
MouseUp(e) ==
  /\ Idle
  /\ nev' = nev + 1
  /\ pending' = <<[name |-> "mouseup", e |-> e]>>
  /\ held' = [held EXCEPT ![e.button] = 0]
  /\ porder' = Released(porder, e.button)
  /\ UNCHANGED <<now, cf, cp, cu, m0, lastMouseT, listeners, model, pubs, msgs>>
  /\ UNCHANGED <<display, view2, ptr, olog>>

\* the pointer moves over the canvas: every mousemove listener registered at
\* this time is called (widgets.js 182, 184)
MouseMove(e) ==
  /\ Idle
  /\ nev' = nev + 1
  /\ pending' = Calls(listeners, e)
  /\ ptr' = IF listeners = <<>> THEN getNDC(e) ELSE ptr
  /\ UNCHANGED <<now, cf, cp, cu, m0, lastMouseT, listeners, model, pubs, msgs>>
  /\ UNCHANGED <<display, view2, held, olog, porder>>

\* the wheel turns over the canvas: handleScroll is called (widgets.js 196)
Wheel(e) ==
  /\ Idle
  /\ nev' = nev + 1
  /\ pending' = <<[name |-> "handleScroll", e |-> e]>>
  /\ UNCHANGED <<now, cf, cp, cu, m0, lastMouseT, listeners, model, pubs, msgs>>
  /\ UNCHANGED <<display, view2, history>>

\* the orbits since the last dolly, after the call of the listener named name
\* with the event e
Logged(name, e) ==
  IF name = "handleDrag"
  THEN Append(olog, [cp |-> cp, md |-> getMouseDelta(View, e).md])
  ELSE IF name = "handleScroll" /\ WheelD(e) # 0 THEN <<>> ELSE olog

\* the last pointer position, after the call of the listener named name with
\* the event e: the position of e once all the listeners of e have run
Pointed(name, e) ==
  IF name \in {"mousedown", "handleDrag", "handleMidDrag"} /\ Tail(pending) = <<>>
  THEN getNDC(e) ELSE ptr

\* the next listener of the event under dispatch runs, to completion
Run ==
  /\ pending # <<>>
  /\ \E v \in {Handle(Head(pending).name, View, Head(pending).e, now)} : Store(v)
  /\ pending' = Tail(pending)
  /\ olog' = Logged(Head(pending).name, Head(pending).e)
  /\ ptr' = Pointed(Head(pending).name, Head(pending).e)
  /\ UNCHANGED <<now, nev, display, view2, held, porder>>

\* a frame arrives that is shown with a delay of one: the handler reads the
\* payload the model held before
FrameArriveStale(fr) ==
  /\ Idle
  /\ nev' = nev + 1
  /\ frame' = fr
  /\ img' = frameChange(frame)
  /\ presents' = presents + 1
  /\ UNCHANGED <<now, cf, cp, cu, m0, lastMouseT, listeners, pending, model, pubs, msgs>>
  /\ UNCHANGED <<view2, history>>

\* a frame arrives: the model's attribute frame is set to the payload fr and
\* the change:frame subscription (widgets.js 71) calls frameChange, which runs
\* to completion
FrameArrive(fr) ==
  /\ Idle
  /\ nev' = nev + 1
  /\ frame' = fr
  /\ img' = frameChange(fr)
  /\ presents' = presents + 1
  /\ UNCHANGED <<now, cf, cp, cu, m0, lastMouseT, listeners, pending, model, pubs, msgs>>
  /\ UNCHANGED <<view2, history>>

Next ==
  \/ \E dt \in Ticks : Tick(dt)
  \/ \E e \in DownEvents : MouseDown(e)
  \/ \E e \in UpEvents : MouseUp(e)
  \/ \E e \in MoveEvents : MouseMove(e)
  \/ \E e \in WheelEvents : Wheel(e)
  \/ Run

Spec == Init /\ [][Next]_vars

\* the input events drawn while frames arrive or a second view is there: a press of the primary or of
\* the auxiliary button at the top left corner, a move to either of two
\* positions, a release of the primary button, a notch of the wheel
DownEventsF  == {e \in DownEvents : e.clientX = 8 /\ e.clientY = 8 /\ e.button # 2}
MoveEventsF  == {e \in MoveEvents : e.clientX = 168}
UpEventsF    == {e \in UpEvents : e.button = 0}
WheelEventsF == {e \in WheelEvents : e.wheelDelta = 40}

-----------------------------------------------------------------------------
(* A second view on the same page.  render assigns cf, cp and cu without   *)
(* declaring them (widgets.js 85-87): they are globals of the page, one    *)
(* set for all views; m0, lastMouseT, the listeners and the model are      *)
(* each view's own.                                                        *)

\* the camera the model of the second view holds: a view from straight above
SecondCamera ==
  [camp |-> <<0, 100000000, 0>>, camf |-> <<0, 0, 0>>, camu |-> <<0, 0, One>>]

\* what the handlers of the second view read and write, as one record
View2 == [cf |-> cf, cp |-> cp, cu |-> cu, m0 |-> view2.m0,
          lastMouseT |-> view2.lastMouseT, listeners |-> view2.listeners,
          model |-> view2.model, pubs |-> view2.pubs, msgs |-> view2.msgs]

\* render of the second view (widgets.js 85-87, 103, 125)
Render2(c) ==
  /\ ~view2.alive
  /\ pending = <<>>
  /\ cf' = c.camf
  /\ cp' = cartToSphr(vadd(c.camp, vscl(c.camf, 0 - One)))
  /\ cu' = c.camu
  /\ view2' = [alive |-> TRUE, m0 |-> [x |-> 0, y |-> 0], lastMouseT |-> now,
               listeners |-> <<>>, pending |-> <<>>,
               model |-> [camp |-> c.camp, camf |-> c.camf],
               pubs |-> <<>>, msgs |-> <<>>]
  /\ UNCHANGED <<now, m0, lastMouseT, listeners, pending, model, pubs, msgs, nev>>
  /\ UNCHANGED <<display, history>>

\* a button goes down over the canvas of the second view
MouseDown2(e) ==
  /\ view2.alive
  /\ Idle
  /\ nev' = nev + 1
  /\ view2' = [view2 EXCEPT !.pending = <<[name |-> "mousedown", e |-> e]>>]
  /\ UNCHANGED <<now, cf, cp, cu, m0, lastMouseT, listeners, pending, model, pubs, msgs>>
  /\ UNCHANGED <<display, history>>

\* a button goes up over the canvas of the second view
MouseUp2(e) ==
  /\ view2.alive
  /\ Idle
  /\ nev' = nev + 1
  /\ view2' = [view2 EXCEPT !.pending = <<[name |-> "mouseup", e |-> e]>>]
  /\ UNCHANGED <<now, cf, cp, cu, m0, lastMouseT, listeners, pending, model, pubs, msgs>>
  /\ UNCHANGED <<display, history>>

\* the pointer moves over the canvas of the second view
MouseMove2(e) ==
  /\ view2.alive
  /\ Idle
  /\ nev' = nev + 1
  /\ view2' = [view2 EXCEPT !.pending = Calls(view2.listeners, e)]
  /\ UNCHANGED <<now, cf, cp, cu, m0, lastMouseT, listeners, pending, model, pubs, msgs>>
  /\ UNCHANGED <<display, history>>

\* the wheel turns over the canvas of the second view
Wheel2(e) ==
  /\ view2.alive
  /\ Idle
  /\ nev' = nev + 1
  /\ view2' = [view2 EXCEPT !.pending = <<[name |-> "handleScroll", e |-> e]>>]
  /\ UNCHANGED <<now, cf, cp, cu, m0, lastMouseT, listeners, pending, model, pubs, msgs>>
  /\ UNCHANGED <<display, history>>

\* the next listener of the event under dispatch on the second canvas runs
Run2 ==
  /\ view2.pending # <<>>
  /\ \E v \in {Handle(Head(view2.pending).name, View2, Head(view2.pending).e, now)} :
       /\ cf' = v.cf
       /\ cp' = v.cp
       /\ cu' = v.cu
       /\ view2' = [alive |-> TRUE, m0 |-> v.m0, lastMouseT |-> v.lastMouseT,
                    listeners |-> v.listeners, pending |-> Tail(view2.pending),
                    model |-> v.model, pubs |-> v.pubs, msgs |-> v.msgs]
  /\ UNCHANGED <<now, m0, lastMouseT, listeners, pending, model, pubs, msgs, nev>>
  /\ UNCHANGED <<display, history>>

\* the page with the view of the notebook's camera and, once rendered, the
\* second view; input events go to either canvas
InitTwo == Constructed(NotebookCamera, Frame0)

NextTwo ==
  \/ Render2(SecondCamera)
  \/ \E dt \in Ticks : Tick(dt)
  \/ \E e \in DownEventsF : MouseDown(e)
  \/ \E e \in UpEventsF : MouseUp(e)
  \/ \E e \in MoveEventsF : MouseMove(e)
  \/ \E e \in WheelEventsF : Wheel(e)
  \/ Run
  \/ \E e \in DownEventsF : MouseDown2(e)
  \/ \E e \in UpEventsF : MouseUp2(e)
  \/ \E e \in MoveEventsF : MouseMove2(e)
  \/ \E e \in WheelEventsF : Wheel2(e)
  \/ Run2

SpecTwo == InitTwo /\ [][NextTwo]_vars

-----------------------------------------------------------------------------
\* Two more cameras a model may hold at construction: the position on the
\* focal point, and the up-vector along the direction of view.
DegenerateCameras ==
  { [camp |-> <<1000000, 2000000, 3000000>>, camf |-> <<1000000, 2000000, 3000000>>,
     camu |-> <<0, One, 0>>],
    [camp |-> <<0, 0, 100000000>>, camf |-> <<0, 0, 0>>, camu |-> <<0, 0, One>>] }

InitDegenerate == \E c \in DegenerateCameras : Constructed(c, Frame0)

\* the view of a model that holds such a camera
SpecDegenerate == InitDegenerate /\ [][Next]_vars

\* the view with frames arriving between the input events
NextFrames ==
  \/ \E fr \in Frames : FrameArrive(fr)
  \/ \E dt \in Ticks : Tick(dt)
  \/ \E e \in DownEventsF : MouseDown(e)
  \/ \E e \in UpEventsF : MouseUp(e)
  \/ \E e \in MoveEventsF : MouseMove(e)
  \/ \E e \in WheelEventsF : Wheel(e)
  \/ Run

SpecFrames == InitFrames /\ [][NextFrames]_vars

\* the view of the notebook's camera and its input events
NextInput ==
  \/ \E dt \in Ticks : Tick(dt)
  \/ \E e \in DownEventsF : MouseDown(e)
  \/ \E e \in UpEventsF : MouseUp(e)
  \/ \E e \in MoveEventsF : MouseMove(e)
  \/ \E e \in WheelEventsF : Wheel(e)
  \/ Run

\* the clock advances
Clock == \E dt \in Ticks : Tick(dt)

\* a listener call is waiting exactly when Run can take a step
Dispatched == pending = <<>>

\* The same with the scheduling of the page: time passes, and the event loop
\* runs every listener call of an event delivered, so that the dispatch of
\* an event is complete again and again (weak fairness of Run, stated by
\* the states in which Run is not enabled).  Nothing makes the user deliver
\* a further event; the view sets no timer (widgets.js has no setTimeout or
\* setInterval), so no code of it runs but its listeners.
SpecFair ==
  InitTwo /\ [][NextInput]_vars /\ WF_vars(Clock) /\ []<>Dispatched

\* the cameras whose offset from the focal point is long enough for the
\* arithmetic above to keep its direction after any rotation: those of the
\* notebook and of the view from above
ResolvedCameras ==
  {c \in Cameras : norm(vadd(c.camp, vscl(c.camf, 0 - One))) >= One}

InitResolved == \E c \in ResolvedCameras : Constructed(c, Frame0)

\* the view of one of these cameras, with all its input events
SpecGestures == InitResolved /\ [][Next]_vars

-----------------------------------------------------------------------------
(* The claims.                                                             *)

\* the time of the publication before the i-th; the throttle clock starts
\* when the view is constructed
PrevPubT(i) == IF i = 1 THEN ConstructT ELSE pubs[i - 1].t

\* C1: rate cap.  The first publication comes more than throttlems after the
\* construction of the view, and every later one more than throttlems after
\* the one before it: the times of the publications increase strictly, and
\* no window shorter than throttlems holds two of them.
C1_RateCap ==
  \A i \in 1..Len(pubs) : pubs[i].t - PrevPubT(i) > throttlems

\* C1, witness: two publications have been made
C1_Witness ==
  /\ Len(pubs) = 2
  /\ pubs[1].t - ConstructT = throttlems + 1
  /\ pubs[2].t - pubs[1].t = throttlems + 1

-----------------------------------------------------------------------------
(* What a step is, read off the two states of the step.                    *)

\* a listener runs in this step, and which one, with which event
IsRun   == pending # <<>> /\ pending' = Tail(pending)
CallName == Head(pending).name
CallE    == Head(pending).e

\* the move of the pointer since the last position, in NDC
Delta(e) == [x |-> getNDC(e).x - m0.x, y |-> getNDC(e).y - m0.y]

\* the call applies a camera operation: an orbit, a pan, or a dolly (a wheel
\* event that reports no delta applies none)
IsCameraOp ==
  \/ CallName \in {"handleDrag", "handleMidDrag"}
  \/ CallName = "handleScroll" /\ WheelD(CallE) # 0

\* the offset and the focal point the operation of the call leaves
OpCp ==
  IF CallName = "handleDrag" THEN Orbit(cp, Delta(CallE))
  ELSE IF CallName = "handleScroll" THEN Dolly(cp, WheelD(CallE))
  ELSE cp
OpCf ==
  IF CallName = "handleMidDrag" THEN Pan(cf, cp, cu, Delta(CallE)) ELSE cf

\* the time of the last publication, or of the construction if there is none
LastPubT == IF pubs = <<>> THEN ConstructT ELSE pubs[Len(pubs)].t

\* the camera state a publication made now carries
Published(c, f) == [t |-> now, camp |-> vadd(sphrToCart(c), f), camf |-> f]

\* C2: latest wins.  Once the attempts of a window shorter than throttlems
\* are over, the state published in that window (the last publication, made
\* less than throttlems ago) is the local camera state left by the last
\* attempt.
C2_LatestWins ==
  (pending = <<>> /\ pubs # <<>> /\ now - pubs[Len(pubs)].t < throttlems)
    => /\ pubs[Len(pubs)].camp = vadd(sphrToCart(cp), cf)
       /\ pubs[Len(pubs)].camf = cf

\* C3: throttling never drops local input.  Every orbit, pan or dolly changes
\* the local camera state at once, throttled or not; at most throttlems after
\* the last publication it publishes nothing; more than throttlems after it,
\* it publishes the local state it has just left, with every change made
\* while throttled.
C3_NoInputDropped ==
  [][ (IsRun /\ IsCameraOp) =>
        /\ cp' = OpCp
        /\ cf' = OpCf
        /\ (now - LastPubT <= throttlems =>
              pubs' = pubs /\ msgs' = msgs /\ model' = model)
        /\ (now - LastPubT > throttlems =>
              pubs' = Append(pubs, Published(cp', cf'))) ]_vars

\* C3, witness: from a radius of 100, two dollies of one notch each, the
\* first throttled, the second published with both changes
C3_Witness ==
  /\ pending = <<>>
  /\ Len(pubs) = 1
  /\ cp[1] = 90250000
  /\ pubs[1].camp = vadd(sphrToCart(cp), cf)

\* C4: render requests are coupled to state changes.  A step sends as many
\* render requests as it makes publications, and an event that leaves the
\* offset and the focal point as they were at the publication before sends
\* no render request.
C4_RenderOnlyOnChange ==
  [][ /\ Len(msgs') - Len(msgs) = Len(pubs') - Len(pubs)
      /\ (Len(msgs') > Len(msgs) /\ pubs # <<>>) =>
           ~ ( /\ cp' = cp
               /\ cf' = cf
               /\ pubs'[Len(pubs')].camp = pubs[Len(pubs)].camp
               /\ pubs'[Len(pubs')].camf = pubs[Len(pubs)].camf ) ]_vars

\* C5: every publication carries the position cf + sphrToCart(cp) and the
\* focal point cf, for the offset and the focal point of the moment, and the
\* model holds the same two values.
C5_PublishedPosition ==
  [][ pubs' # pubs =>
        /\ pubs' = Append(pubs, Published(cp', cf'))
        /\ model' = [camp |-> vadd(sphrToCart(cp'), cf'), camf |-> cf'] ]_vars

\* C5, witness: a publication made after a pan and a dolly
C5_Witness ==
  /\ pending = <<>>
  /\ pubs # <<>>
  /\ \A c \in Cameras : cf # c.camf /\ cp[1] # norm(vadd(c.camp, vscl(c.camf, 0 - One)))
  /\ pubs[Len(pubs)] = Published(cp, cf)

\* name is a registered mousemove listener
Registered(ls, name) == \E i \in 1..Len(ls) : ls[i] = name

\* what the call of a gesture does to the camera: handleDrag an orbit,
\* handleMidDrag a pan, handleScroll a dolly, or nothing when the wheel event
\* reports no delta
GestureApplied ==
  (IsRun /\ CallName \in {"handleDrag", "handleMidDrag", "handleScroll"}) =>
    IF IsCameraOp THEN cp' = OpCp /\ cf' = OpCf
                  ELSE cp' = cp /\ cf' = cf

\* every pointer-move calls each gesture started and not ended, every wheel
\* event handleScroll, and a release ends the gesture of its button
GestureDispatch ==
  /\ \A e \in MoveEvents : MouseMove(e) => pending' = Calls(listeners, e)
  /\ \A e \in WheelEvents :
       Wheel(e) => pending' = <<[name |-> "handleScroll", e |-> e]>>
  /\ (IsRun /\ CallName = "mouseup") =>
       /\ CallE.button = 0 => ~Registered(listeners', "handleDrag")
       /\ CallE.button = 1 => ~Registered(listeners', "handleMidDrag")

\* C6 as stated: gesture mapping.  A press of the primary button starts an
\* orbit drag, a press of the secondary or of the auxiliary button starts a
\* pan drag; every pointer-move until the release applies the gesture, and a
\* wheel event applies a dolly.
C6_GestureMapping ==
  [][ /\ (IsRun /\ CallName = "mousedown") =>
           /\ CallE.button = 0 => Registered(listeners', "handleDrag")
           /\ CallE.button \in {1, 2} => Registered(listeners', "handleMidDrag")
      /\ GestureDispatch
      /\ GestureApplied ]_vars

\* C6 as amended: a press of the primary button (0) starts an orbit drag, a
\* press of the auxiliary button (1) a pan drag, and a press of the secondary
\* button (2) starts no gesture; every pointer-move until the release calls
\* the gestures started, and a wheel event that reports a delta applies a
\* dolly.
C6_GestureMappingAmended ==
  [][ /\ (IsRun /\ CallName = "mousedown") =>
           /\ CallE.button = 0 => Registered(listeners', "handleDrag")
           /\ CallE.button = 1 => Registered(listeners', "handleMidDrag")
           /\ CallE.button = 2 => listeners' = listeners
      /\ GestureDispatch
      /\ GestureApplied ]_vars

\* C6, witness: during a drag with the auxiliary button a pan has moved the
\* focal point
C6_Witness ==
  /\ pending = <<>>
  /\ listeners = <<"handleMidDrag">>
  /\ \A c \in Cameras : cf # c.camf

\* C7: the elevation of the offset lies in [-phiLim, phiLim] in every state.
C7_ElevationBound ==
  ~IsNaN(cp[3]) /\ 0 - phiLim <= cp[3] /\ cp[3] <= phiLim

\* C8: the radius of the offset is at least rlim in every state.
C8_RadiusBound ==
  ~IsNaN(cp[1]) /\ cp[1] >= rlim

\* clamp(x, lo, hi)
Clamp(x, lo, hi) ==
  IF IsNaN(x) THEN NaN ELSE IF x < lo THEN lo ELSE IF x > hi THEN hi ELSE x

\* the changes of azimuth and elevation an orbit call asks for
DeltaAzimuth   == FMul(dragScl, Delta(CallE).x)
DeltaElevation == FMul(dragScl, Delta(CallE).y)

\* C9: the elevation clamp.  An orbit sets the elevation to
\* clamp(elevation - deltaElevation, -phiLim, phiLim) and the azimuth to
\* azimuth - deltaAzimuth; from an elevation at a limit, an orbit that pushes
\* further out leaves the elevation at that limit.
C9_ElevationClamp ==
  [][ (IsRun /\ CallName = "handleDrag") =>
        /\ cp'[3] = Clamp(FSub(cp[3], DeltaElevation), 0 - phiLim, phiLim)
        /\ cp'[2] = FSub(cp[2], DeltaAzimuth)
        /\ (cp[3] = phiLim /\ DeltaElevation <= 0) => cp'[3] = phiLim
        /\ (cp[3] = 0 - phiLim /\ DeltaElevation >= 0) => cp'[3] = 0 - phiLim ]_vars

\* C9, witness: an orbit has put the elevation at the upper limit and was
\* published; the next orbit, a move down to the bottom right corner, pushed
\* further up, and the elevation is at the limit still while the azimuth has
\* moved on by 4 rad
C9_Witness ==
  /\ pending = <<>>
  /\ Len(pubs) = 1
  /\ cp[3] = phiLim
  /\ m0 = [x |-> One, y |-> 0 - One]
  /\ pubs[1].camp = vadd(sphrToCart(<<cp[1], cp[2] + 4 * One, phiLim>>), cf)
  /\ pubs[1].camp # vadd(sphrToCart(cp), cf)

\* C10: dolly monotonicity.  A dolly by delta sets the radius to
\* max(rlim, radius * (1 - 0.05 delta)); for delta > 0 the radius gets
\* strictly smaller, unless it is rlim already and stays rlim.
C10_DollyMonotone ==
  [][ (IsRun /\ CallName = "handleScroll" /\ WheelD(CallE) > 0) =>
        /\ cp'[1] = FMax(rlim, FMul(cp[1], One - FMul(dScl, WheelD(CallE))))
        /\ \/ cp'[1] < cp[1]
           \/ cp[1] = rlim /\ cp'[1] = rlim ]_vars

-----------------------------------------------------------------------------
(* Sequences of orbits.                                                    *)

\* the changes of azimuth and elevation the orbit k of the log asked for
LogDeltaAz(k) == FMul(dragScl, olog[k].md.x)
LogDeltaEl(k) == FMul(dragScl, olog[k].md.y)

\* the sums of these changes over the orbits i..j of the log
RECURSIVE SumDeltaAz(_, _)
SumDeltaAz(i, j) == IF i > j THEN 0 ELSE LogDeltaAz(i) + SumDeltaAz(i + 1, j)
RECURSIVE SumDeltaEl(_, _)
SumDeltaEl(i, j) == IF i > j THEN 0 ELSE LogDeltaEl(i) + SumDeltaEl(i + 1, j)

\* the offset the orbit j of the log left: no pan changes it, and a dolly
\* starts the log anew
OffsetAfter(j) == IF j < Len(olog) THEN olog[j + 1].cp ELSE cp

\* an offset with the elevation strictly inside the limits and the radius
\* above rlim
StrictlyInside(c) ==
  /\ \A k \in 1..3 : ~IsNaN(c[k])
  /\ 0 - phiLim < c[3] /\ c[3] < phiLim
  /\ c[1] > rlim

\* the orbits i..j of the log ask for changes that sum to zero, from an offset
\* strictly inside
ZeroSum(i, j) ==
  /\ i <= j
  /\ StrictlyInside(olog[i].cp)
  /\ SumDeltaAz(i, j) = 0
  /\ SumDeltaEl(i, j) = 0

\* the orbit k of the log asked for an elevation within the limits: its clamp
\* changed nothing
Unclamped(k) ==
  LET el == FSub(olog[k].cp[3], LogDeltaEl(k))
  IN  0 - phiLim <= el /\ el <= phiLim

\* C11 as stated: the orbit round trip.  From an offset with the elevation
\* strictly inside the limits and the radius above rlim, any sequence of
\* orbits whose azimuth changes sum to zero and whose elevation changes sum
\* to zero leaves azimuth, elevation and radius as they were.
C11_OrbitRoundTrip ==
  \A i \in 1..Len(olog) : \A j \in 1..Len(olog) :
    ZeroSum(i, j) => OffsetAfter(j) = olog[i].cp

\* C11 as amended: the same, for the sequences of orbits none of which is
\* clamped (each asks for an elevation within the limits).
C11_OrbitRoundTripAmended ==
  \A i \in 1..Len(olog) : \A j \in 1..Len(olog) :
    (ZeroSum(i, j) /\ \A k \in i..j : Unclamped(k)) => OffsetAfter(j) = olog[i].cp

\* C11, witness: two orbits, the second back by what the first went in
\* azimuth and in elevation, neither clamped, have left the offset where it
\* was and not where it was in between
C11_Witness ==
  /\ pending = <<>>
  /\ Len(olog) = 2
  /\ ZeroSum(1, 2)
  /\ LogDeltaAz(1) # 0 /\ LogDeltaEl(1) # 0
  /\ Unclamped(1) /\ Unclamped(2)
  /\ olog[2].cp # olog[1].cp
  /\ cp = olog[1].cp

-----------------------------------------------------------------------------
(* The display.                                                            *)

\* the number of pixels of the canvas
Pixels == resolution[1] * resolution[2]

\* the four bytes of the pixel i (from 0) of image data or of a payload
Group(bytes, i) == <<bytes[4 * i + 1], bytes[4 * i + 2], bytes[4 * i + 3], bytes[4 * i + 4]>>

\* C12: frame conversion.  The image shown is that of the payload the model
\* holds, put there at construction or by the last arrival: for every pixel i
\* of the canvas the payload has a group [R, G, B, A] for, the pixel shown is
\* [R, G, B, 255], whatever A is; and frameChange makes of every payload the
\* image the initial render makes of it.
C12_FrameConversion ==
  /\ Len(img) = 4 * Pixels
  /\ \A i \in 0..(Pixels - 1) :
       4 * i + 4 <= Len(frame) =>
         Group(img, i) = <<Group(frame, i)[1], Group(frame, i)[2], Group(frame, i)[3], 255>>
  /\ \A fr \in Frames : frameChange(fr) = initialRender(fr)

\* C12, witness: a payload with the alphas 0 and 128 has arrived and is shown
\* opaque
C12_Witness ==
  /\ presents = 2
  /\ frame = <<200, 100, 50, 0, 7, 8, 9, 128>>
  /\ img = <<200, 100, 50, 255, 7, 8, 9, 255>>

\* a payload whose byte count is no multiple of 4, or is not width x height x 4
Malformed(fr) == Len(fr) % 4 # 0 \/ Len(fr) # 4 * Pixels

\* C13: malformed frames.  The arrival of a malformed payload is skipped: the
\* image shown stays exactly the image shown before.
C13_MalformedFrameSkipped ==
  [][ \A fr \in Frames : (FrameArrive(fr) /\ Malformed(fr)) => img' = img ]_vars

\* the image the conversion makes of a payload: the bytes of the payload with
\* every fourth byte 255, and 0 where the payload has no byte
Conversion(fr) ==
  [k \in 1..(4 * Pixels) |->
     IF k % 4 = 0 THEN 255 ELSE IF k <= Len(fr) THEN fr[k] ELSE 0]

\* C14: frame ordering.  Every arrival of a frame makes exactly one
\* conversion-and-present, after which the image shown is the conversion of
\* the frame that arrived; no other step, the run of a pointer or wheel
\* handler included, changes the image shown or presents anything: in every
\* state the image shown is the conversion of the frame that arrived last.
C14_FrameOrdering ==
  /\ img = Conversion(frame)
  /\ [][ /\ \A fr \in Frames :
              FrameArrive(fr) =>
                presents' = presents + 1 /\ frame' = fr /\ img' = Conversion(fr)
         /\ (~ \E fr \in Frames : FrameArrive(fr)) =>
              img' = img /\ presents' = presents /\ frame' = frame
         /\ img' = Conversion(frame') ]_vars

\* C14, witness: two frames have arrived, a dolly between them, and the
\* second is the one shown
C14_Witness ==
  /\ presents = 3
  /\ nev = 3
  /\ pending = <<>>
  /\ cp[1] # norm(vadd(NotebookCamera.camp, vscl(NotebookCamera.camf, 0 - One)))
  /\ frame = <<200, 100, 50, 0, 7, 8, 9, 128>>
  /\ img = <<200, 100, 50, 255, 7, 8, 9, 255>>

-----------------------------------------------------------------------------
(* Degenerate vectors.                                                     *)

\* a vector or an offset of three finite numbers
Finite(x) == \A k \in 1..3 : ~IsNaN(x[k])

\* the two cross products handleMidDrag normalizes, for the camera as it is
PanHorizontal == cross(sphrToCart(cp), cu)
PanVertical   == cross(sphrToCart(cp), normalize(PanHorizontal))

\* a vector normalize can take: finite and not of length zero
Normalizable(x) == Finite(x) /\ norm(x) # 0

\* C15: no degenerate vector.  The offset is never the conversion of the zero
\* vector (its radius is never 0), every call of handleMidDrag finds both of
\* its cross products of a length other than zero, and the offset and the
\* focal point are finite in every state.
C15_NoDegenerateVector ==
  /\ Finite(cp) /\ Finite(cf)
  /\ cp[1] # 0
  /\ (pending # <<>> /\ Head(pending).name = "handleMidDrag") =>
       Normalizable(PanHorizontal) /\ Normalizable(PanVertical)

-----------------------------------------------------------------------------
(* Two views.                                                              *)

\* C16: instance isolation.  The render of the second view and the run of
\* its handlers change neither the offset, the focal point and the up-vector
\* nor the time of the last publication of the first view's controller.
C16_InstanceIsolation ==
  [][ view2' # view2 => UNCHANGED <<cp, cf, cu, lastMouseT>> ]_vars

-----------------------------------------------------------------------------
(* The pointer.                                                            *)

\* the move of the pointer from the last pointer-down or pointer-move event
\* before the one under dispatch, in NDC
OneStep(e) == [x |-> getNDC(e).x - ptr.x, y |-> getNDC(e).y - ptr.y]

\* C17: one-step deltas.  Once an event is handled, the last mouse position
\* is the position of the last pointer-down or pointer-move event delivered;
\* and every call of a drag handler applies to the camera the move from the
\* pointer-down or pointer-move event just before to the pointer-move under
\* dispatch.
C17_OneStepDeltas ==
  [][ /\ pending' = <<>> => m0' = ptr'
      /\ (IsRun /\ CallName = "handleDrag") => cp' = Orbit(cp, OneStep(CallE))
      /\ (IsRun /\ CallName = "handleMidDrag") =>
           cf' = Pan(cf, cp, cu, OneStep(CallE)) ]_vars

\* the event of the call is at the top edge, at the bottom edge of the canvas
AtTop(e)    == e.clientY = rect.top
AtBottom(e) == e.clientY = rect.bottom

\* C18: the NDC range.  Every listener that takes the position of its event
\* (all events are inside the rectangle of the canvas) leaves a last mouse
\* position with x and y in [0, 1], y = 1 for an event at the top edge and
\* y = 0 for one at the bottom edge.
C18_NDCRange ==
  [][ (IsRun /\ CallName \in {"mousedown", "handleDrag", "handleMidDrag"}) =>
        /\ 0 <= m0'.x /\ m0'.x <= One
        /\ 0 <= m0'.y /\ m0'.y <= One
        /\ AtTop(CallE) => m0'.y = One
        /\ AtBottom(CallE) => m0'.y = 0 ]_vars

\* C19: the frame effects.  An orbit leaves the radius and the focal point,
\* and one that asks for no change of elevation leaves the elevation and the
\* y of the position; a pan leaves the offset; a dolly leaves azimuth,
\* elevation and focal point; none changes the up-vector or the image shown.
C19_FrameEffects ==
  [][ IsRun =>
        /\ CallName = "handleDrag" =>
             /\ cp'[1] = cp[1]
             /\ cf' = cf
             /\ DeltaElevation = 0 =>
                  /\ cp'[3] = cp[3]
                  /\ vadd(sphrToCart(cp'), cf')[2] = vadd(sphrToCart(cp), cf)[2]
        /\ CallName = "handleMidDrag" => cp' = cp
        /\ CallName = "handleScroll" => cp'[2] = cp[2] /\ cp'[3] = cp[3] /\ cf' = cf
        /\ cu' = cu
        /\ img' = img /\ presents' = presents ]_vars

\* the calls of the listener named name still to run for the event under dispatch
CallsOf(name) == {k \in 1..Len(pending) : pending[k].name = name}

\* the button b is down: pressed over the canvas and not released there since
Down(b) == held[b] > 0

\* C20: the lifecycle of the drag listeners.  No listener is registered
\* twice, however often its button is pressed; between two events handleDrag
\* is registered exactly while the primary button is down and handleMidDrag
\* exactly while the auxiliary button is down, so one release ends the
\* gesture; and a pointer-move calls handleDrag at most once and handleMidDrag
\* at most once, and each only while its button is down.
C20_ListenerLifecycle ==
  /\ \A i \in 1..Len(listeners) : \A j \in 1..Len(listeners) :
       listeners[i] = listeners[j] => i = j
  /\ pending = <<>> =>
       /\ Registered(listeners, "handleDrag") <=> Down(0)
       /\ Registered(listeners, "handleMidDrag") <=> Down(1)
  /\ Cardinality(CallsOf("handleDrag")) <= 1
  /\ Cardinality(CallsOf("handleMidDrag")) <= 1
  /\ CallsOf("handleDrag") # {} => Down(0)
  /\ CallsOf("handleMidDrag") # {} => Down(1)

\* C20, witness: the primary button was pressed twice without a release, and
\* the pointer-move after that has applied one orbit
C20_Witness ==
  /\ pending = <<>>
  /\ held[0] = 2
  /\ listeners = <<"handleDrag">>
  /\ Len(olog) = 1
  /\ cp # olog[1].cp

-----------------------------------------------------------------------------
(* Quiescence.                                                             *)

\* the camera the remote side holds is the local one: the last publication
\* carries the offset and the focal point as they are or, with nothing
\* published yet, they are those of the construction
InSync ==
  IF pubs = <<>>
  THEN /\ cf = model.camf
       /\ cp = cartToSphr(vadd(model.camp, vscl(model.camf, 0 - One)))
  ELSE /\ pubs[Len(pubs)].camp = vadd(sphrToCart(cp), cf)
       /\ pubs[Len(pubs)].camf = cf

\* C21: publication at quiescence.  Whatever input events are delivered, from
\* some time on the last published camera state is the local camera state
\* for good: once the input has ended, the final pose reaches the remote
\* side, also when the last event fell inside the throttle interval.
C21_EventualPublication == <>[]InSync

-----------------------------------------------------------------------------
(* Two buttons at once.                                                    *)

\* the mousemove listener of the gesture of the button b
GestureOf(b) == IF b = 0 THEN "handleDrag" ELSE "handleMidDrag"

\* the primary and the auxiliary button are both down
BothHeld == Down(0) /\ Down(1)

\* a pointer-move is delivered in this step
IsMove ==
  /\ pending = <<>>
  /\ nev' = nev + 1
  /\ held' = held
  /\ \A k \in 1..Len(pending') : pending'[k].name \in {"handleDrag", "handleMidDrag"}

\* C22: simultaneous gestures.  While the primary and the auxiliary button
\* are both down, a pointer-move calls the handler of the button pressed
\* first and then the handler of the other button, once each; the first
\* applies the move of the pointer since the last pointer event to its part
\* of the camera (the orbit to the offset, the pan to the focal point) and
\* leaves the other part; the second leaves both the offset and the focal
\* point as they are.
C22_SimultaneousGestures ==
  [][ BothHeld =>
        /\ IsMove =>
             /\ Len(pending') = 2
             /\ pending'[1].name = GestureOf(porder[1])
             /\ pending'[2].name = GestureOf(porder[2])
             /\ pending'[1].e = pending'[2].e
        /\ (IsRun /\ CallName = "handleDrag") =>
             IF porder[1] = 0
             THEN cp' = Orbit(cp, OneStep(CallE)) /\ cf' = cf
             ELSE cp' = cp /\ cf' = cf
        /\ (IsRun /\ CallName = "handleMidDrag") =>
             IF porder[1] = 1
             THEN cf' = Pan(cf, cp, cu, OneStep(CallE)) /\ cp' = cp
             ELSE cp' = cp /\ cf' = cf ]_vars

=============================================================================
